---- MODULE Spec2Model ----
(***************************************************************************)
(* The `search` tool of the Everything Search MCP server.                   *)
(*                                                                         *)
(* The repository holds two builds of the server: src/server.js ("js")     *)
(* and the TypeScript source src/unnamed/part_000 ("ts").  Both register   *)
(* the same callTool handler; they differ in the schema defaults, in the   *)
(* scope rule, in the parameters sent and in the handling of a response    *)
(* without `results`.  The variable `variant` says which build runs.       *)
(*                                                                         *)
(* Text that the code inspects (scope, query, size, date_modified) is a    *)
(* sequence of one-character strings; text the code only produces is a     *)
(* string.                                                                  *)
(***************************************************************************)
EXTENDS Integers, Sequences, FiniteSets, TLC

VARIABLES variant, tz, calls, fmt

vars == <<variant, tz, calls, fmt>>

(***************************************************************************)
(* JavaScript values, tagged by typeof.  The numbers of the model are      *)
(* integers; an array is tagged "array" to tell it from a plain object.    *)
(***************************************************************************)
Undefined == [t |-> "undefined"]
Null == [t |-> "null"]
Bool(b) == [t |-> "boolean", b |-> b]
Num(n) == [t |-> "number", n |-> n]
Str(s) == [t |-> "string", s |-> s]
Arr(a) == [t |-> "array", a |-> a]
Obj(f) == [t |-> "object", f |-> f]

\* ToBoolean: undefined, null, false, 0 and "" are falsy.
Truthy(v) ==
  CASE v.t = "undefined" -> FALSE
    [] v.t = "null" -> FALSE
    [] v.t = "boolean" -> v.b
    [] v.t = "number" -> v.n # 0
    [] v.t = "string" -> v.s # <<>>
    [] OTHER -> TRUE

\* v.k: a property read; a primitive has no own data property of these names.
Get(v, k) == IF v.t = "object" /\ k \in DOMAIN v.f THEN v.f[k] ELSE Undefined

RECURSIVE Flatten(_)
\* The string spelled by a sequence of one-character strings.
Flatten(s) == IF s = <<>> THEN "" ELSE Head(s) \o Flatten(Tail(s))

\* String(v), as a template literal `${v}` computes it.
ToStr(v) ==
  CASE v.t = "undefined" -> "undefined"
    [] v.t = "null" -> "null"
    [] v.t = "boolean" -> (IF v.b THEN "true" ELSE "false")
    [] v.t = "number" -> ToString(v.n)
    [] v.t = "string" -> Flatten(v.s)
    [] v.t = "array" -> "<array>"
    [] OTHER -> "[object Object]"

(***************************************************************************)
(* SearchSchema: one entry per key; unknown keys are stripped by z.object. *)
(***************************************************************************)
SortNames ==
  { <<"n","a","m","e">>, <<"p","a","t","h">>, <<"s","i","z","e">>,
    <<"d","a","t","e","_","m","o","d","i","f","i","e","d">> }

ZString(mode, dflt) ==
  [type |-> "string", mode |-> mode, dflt |-> dflt, min |-> 0, max |-> 0, bounded |-> FALSE]
ZBoolean(mode, dflt) ==
  [type |-> "boolean", mode |-> mode, dflt |-> dflt, min |-> 0, max |-> 0, bounded |-> FALSE]
ZNumber(mode, dflt, lo, hi, bounded) ==
  [type |-> "number", mode |-> mode, dflt |-> dflt, min |-> lo, max |-> hi, bounded |-> bounded]
ZEnum(mode, dflt) ==
  [type |-> "enum", mode |-> mode, dflt |-> dflt, min |-> 0, max |-> 0, bounded |-> FALSE]
ZStripped ==
  [type |-> "stripped", mode |-> "optional", dflt |-> Undefined, min |-> 0, max |-> 0, bounded |-> FALSE]

DefaultMaxResultsJs == Num(32)

SearchSchemaJs ==
  [ query |-> ZString("required", Undefined),
    scope |-> ZString("default", Str(<<"C", ":">>)),
    caseSensitive |-> ZBoolean("default", Bool(FALSE)),
    wholeWord |-> ZBoolean("default", Bool(FALSE)),
    regex |-> ZBoolean("default", Bool(FALSE)),
    path |-> ZBoolean("default", Bool(FALSE)),
    maxResults |-> ZNumber("default", DefaultMaxResultsJs, 1, 1000, TRUE),
    sortBy |-> ZEnum("default", Str(<<"n","a","m","e">>)),
    ascending |-> ZBoolean("default", Bool(TRUE)),
    offset |-> ZNumber("default", Num(0), 0, 0, FALSE) ]

SearchSchemaTs ==
  [ query |-> ZString("required", Undefined),
    scope |-> ZString("default", Str(<<"C", ":">>)),
    caseSensitive |-> ZBoolean("optional", Undefined),
    wholeWord |-> ZBoolean("optional", Undefined),
    regex |-> ZBoolean("optional", Undefined),
    path |-> ZBoolean("optional", Undefined),
    maxResults |-> ZNumber("default", Num(100), 1, 1000, TRUE),
    sortBy |-> ZEnum("optional", Undefined),
    ascending |-> ZBoolean("optional", Undefined),
    offset |-> ZStripped ]

SearchSchema(v) == IF v = "js" THEN SearchSchemaJs ELSE SearchSchemaTs

Keys == DOMAIN SearchSchemaJs

\* ZodAccepts with the .max(1000) check left out.
ZodAcceptsNoMax(z, v) ==
  CASE z.type = "string" -> v.t = "string"
    [] z.type = "boolean" -> v.t = "boolean"
    [] z.type = "number" -> v.t = "number" /\ v.n >= z.min
    [] z.type = "enum" -> v.t = "string" /\ v.s \in SortNames
    [] OTHER -> TRUE

\* ZodAccepts with sortBy a plain z.string() instead of z.enum([...]).
ZodAcceptsAnySort(z, v) ==
  CASE z.type = "string" -> v.t = "string"
    [] z.type = "boolean" -> v.t = "boolean"
    [] z.type = "number" ->
         /\ v.t = "number"
         /\ v.n >= z.min
         /\ (z.bounded => v.n <= z.max)
    [] z.type = "enum" -> v.t = "string"
    [] OTHER -> TRUE

\* Does value v (not undefined) pass the type and range checks of one key?
ZodAccepts(z, v) ==
  CASE z.type = "string" -> v.t = "string"
    [] z.type = "boolean" -> v.t = "boolean"
    [] z.type = "number" ->
         /\ v.t = "number"
         /\ v.n >= z.min
         /\ (z.bounded => v.n <= z.max)
    [] z.type = "enum" -> v.t = "string" /\ v.s \in SortNames
    [] OTHER -> TRUE

\* The issue zod raises for key k of the bag, if any.
ZodIssue(z, v) ==
  IF v = Undefined THEN z.mode = "required" ELSE ~ZodAccepts(z, v)

\* The parsed value of one key that raised no issue.
ZodValue(z, v) ==
  IF z.type = "stripped" THEN Undefined
  ELSE IF v = Undefined /\ z.mode = "default" THEN z.dflt
  ELSE v

\* SearchSchema.parse(args): the validated parameters, or the ZodError.
SchemaParse(schema, args) ==
  IF args.t # "object"
  THEN [ok |-> FALSE, issues |-> {"arguments"}]
  ELSE LET issues == {k \in Keys : ZodIssue(schema[k], Get(args, k))}
       IN IF issues # {}
          THEN [ok |-> FALSE, issues |-> issues]
          ELSE [ok |-> TRUE,
                data |-> [k \in Keys |-> ZodValue(schema[k], Get(args, k))]]

(***************************************************************************)
(* searchFiles: the query string and the axios.get request.                *)
(***************************************************************************)
EndsWithBackslash(s) == Len(s) > 0 /\ s[Len(s)] = "\\"

\* searchQueryJs without the endsWith test: a backslash is always inserted.
searchQueryJsAlwaysSeparator(params) ==
  IF Truthy(params.scope)
  THEN params.scope.s \o <<"\\">> \o params.query.s
  ELSE params.query.s

\* server.js: scope + query, with one backslash between them when scope has none.
searchQueryJs(params) ==
  IF Truthy(params.scope)
  THEN IF EndsWithBackslash(params.scope.s)
       THEN params.scope.s \o params.query.s
       ELSE params.scope.s \o <<"\\">> \o params.query.s
  ELSE params.query.s

\* part_000: the scope "C:" is dropped; any other scope is joined with a backslash.
searchQueryTs(params) ==
  IF Truthy(params.scope) /\ params.scope # Str(<<"C", ":">>)
  THEN params.scope.s \o <<"\\">> \o params.query.s
  ELSE params.query.s

Flag(v) == IF Truthy(v) THEN Num(1) ELSE Num(0)

\* The params object of axios.get; a key whose value is Undefined is not sent.
RequestJs(params) ==
  [ url |-> "http://localhost:8011/",
    search |-> Str(searchQueryJs(params)),
    json |-> Num(1),
    path_column |-> Num(1),
    size_column |-> Num(1),
    date_modified_column |-> Num(1),
    case |-> Flag(params.caseSensitive),
    wholeword |-> Flag(params.wholeWord),
    regex |-> Flag(params.regex),
    path |-> Flag(params.path),
    count |-> params.maxResults,
    offset |-> params.offset,
    sort |-> params.sortBy,
    ascending |-> Flag(params.ascending),
    timeout |-> "10000" ]

RequestTs(params) ==
  [ url |-> "http://127.0.0.1:8011/",
    search |-> Str(searchQueryTs(params)),
    json |-> Num(1),
    path_column |-> Num(1),
    size_column |-> Num(1),
    date_modified_column |-> Num(1),
    case |-> Flag(params.caseSensitive),
    wholeword |-> Flag(params.wholeWord),
    regex |-> Flag(params.regex),
    path |-> Flag(params.path),
    count |-> params.maxResults,
    offset |-> Undefined,
    sort |-> IF Truthy(params.sortBy) THEN params.sortBy ELSE Str(<<"n","a","m","e">>),
    ascending |-> IF params.ascending = Bool(FALSE) THEN Num(0) ELSE Num(1),
    timeout |-> "5000" ]

BuildRequest(v, params) == IF v = "js" THEN RequestJs(params) ELSE RequestTs(params)

(***************************************************************************)
(* What axios.get can settle with.  A rejection is an AxiosError with a    *)
(* code: a refused connection has code ECONNREFUSED; the expiry of the     *)
(* `timeout` option has code ECONNABORTED and the message "timeout of      *)
(* <ms>ms exceeded" (the request sets no transitional.clarifyTimeoutError);*)
(* a connect that the operating system times out has code ETIMEDOUT; a     *)
(* status outside 2xx has code ERR_BAD_REQUEST or ERR_BAD_RESPONSE.        *)
(***************************************************************************)
FailureCauses == {"refused", "timeout", "connect-timeout", "status", "reset"}

AxiosError(cause, code, message) ==
  [isAxios |-> TRUE, cause |-> cause, code |-> code, message |-> message]

AxiosFailures(request) ==
  { AxiosError("refused", "ECONNREFUSED", "connect ECONNREFUSED 127.0.0.1:8011"),
    AxiosError("timeout", "ECONNABORTED", "timeout of " \o request.timeout \o "ms exceeded"),
    AxiosError("connect-timeout", "ETIMEDOUT", "connect ETIMEDOUT 127.0.0.1:8011"),
    AxiosError("status", "ERR_BAD_REQUEST", "Request failed with status code 400"),
    AxiosError("status", "ERR_BAD_RESPONSE", "Request failed with status code 500"),
    AxiosError("reset", "ECONNRESET", "socket hang up") }

Error(message) == [name |-> "Error", message |-> message]
TypeError(message) == [name |-> "TypeError", message |-> message]
ZodError(issues) == [name |-> "ZodError", issues |-> issues]

UnavailableMessage ==
  "Could not connect to Everything Search. Make sure the HTTP server is enabled in Everything's settings (Tools > Options > HTTP Server)."
TimedOutMessage ==
  "Everything Search API request timed out. The server might be busy or unresponsive."
InvalidResponseMessage == "Invalid response from Everything Search API"

\* The catch block of searchFiles: what is thrown for a caught error.
Classify(error) ==
  IF "isAxios" \in DOMAIN error
  THEN IF error.code = "ECONNREFUSED" THEN Error(UnavailableMessage)
       ELSE IF error.code = "ETIMEDOUT" THEN Error(TimedOutMessage)
       ELSE Error("Everything Search API error: " \o error.message)
  ELSE error

(***************************************************************************)
(* formatFileSize                                                          *)
(***************************************************************************)
DecDigits ==
  "0" :> 0 @@ "1" :> 1 @@ "2" :> 2 @@ "3" :> 3 @@ "4" :> 4 @@
  "5" :> 5 @@ "6" :> 6 @@ "7" :> 7 @@ "8" :> 8 @@ "9" :> 9

HexDigits ==
  DecDigits @@
  "a" :> 10 @@ "b" :> 11 @@ "c" :> 12 @@ "d" :> 13 @@ "e" :> 14 @@ "f" :> 15 @@
  "A" :> 10 @@ "B" :> 11 @@ "C" :> 12 @@ "D" :> 13 @@ "E" :> 14 @@ "F" :> 15

WhiteSpace == {" ", "\t", "\n", "\r"}

RECURSIVE TrimLeft(_)
TrimLeft(s) == IF s # <<>> /\ Head(s) \in WhiteSpace THEN TrimLeft(Tail(s)) ELSE s

RECURSIVE TrimRight(_)
TrimRight(s) ==
  IF s # <<>> /\ s[Len(s)] \in WhiteSpace THEN TrimRight(SubSeq(s, 1, Len(s) - 1)) ELSE s

RECURSIVE DigitPrefix(_, _)
\* The longest prefix of s made of digits of the table.
DigitPrefix(s, digits) ==
  IF s # <<>> /\ Head(s) \in DOMAIN digits
  THEN <<Head(s)>> \o DigitPrefix(Tail(s), digits)
  ELSE <<>>

RECURSIVE DigitsValue(_, _, _)
\* The number spelled by the digits s in the radix, most significant first.
DigitsValue(s, digits, radix) ==
  IF s = <<>> THEN 0
  ELSE DigitsValue(SubSeq(s, 1, Len(s) - 1), digits, radix) * radix + digits[s[Len(s)]]

\* A number is NaN, or a sign and the decimal digits of its magnitude: a
\* size of sixteen digits needs no wide integer.
NaN == [nan |-> TRUE]
Number(negative, digits) == [nan |-> FALSE, negative |-> negative, digits |-> digits]

RECURSIVE DecimalDigits(_)
\* The decimal digits of a natural number, most significant first.
DecimalDigits(n) ==
  IF n < 10 THEN <<n>> ELSE DecimalDigits(n \div 10) \o <<n % 10>>

IsZero(digits) == \A i \in 1..Len(digits) : digits[i] = 0

\* parseInt(string) with no radix argument.
parseIntString(s) ==
  LET t == TrimLeft(s)
      negative == t # <<>> /\ Head(t) = "-"
      signed == t # <<>> /\ Head(t) \in {"-", "+"}
      u == IF signed THEN Tail(t) ELSE t
      hex == Len(u) >= 2 /\ u[1] = "0" /\ u[2] \in {"x", "X"}
      body == IF hex THEN SubSeq(u, 3, Len(u)) ELSE u
      digits == IF hex THEN HexDigits ELSE DecDigits
      prefix == DigitPrefix(body, digits)
  IN IF prefix = <<>> THEN NaN
     ELSE IF hex THEN Number(negative, DecimalDigits(DigitsValue(prefix, HexDigits, 16)))
     ELSE Number(negative, [i \in 1..Len(prefix) |-> DecDigits[prefix[i]]])

\* parseInt(v): the argument is first converted to a string.
parseInt(v) ==
  CASE v.t = "string" -> parseIntString(v.s)
    [] v.t = "number" -> Number(v.n < 0, DecimalDigits(IF v.n < 0 THEN 0 - v.n ELSE v.n))
    [] OTHER -> NaN

units == <<"bytes", "KB", "MB", "GB", "TB">>

RECURSIVE DigitsToNat(_)
\* The natural number the digits spell.
DigitsToNat(digits) ==
  IF digits = <<>> THEN 0
  ELSE DigitsToNat(SubSeq(digits, 1, Len(digits) - 1)) * 10 + digits[Len(digits)]

RECURSIVE DropZeros(_)
DropZeros(digits) ==
  IF Len(digits) > 1 /\ Head(digits) = 0 THEN DropZeros(Tail(digits)) ELSE digits

\* value >= 1024, for a whole number given by its digits.
AtLeast1024(digits) ==
  LET d == DropZeros(digits)
  IN Len(d) > 4 \/ (Len(d) = 4 /\ DigitsToNat(d) >= 1024)

RECURSIVE DivideBy1024(_, _, _)
\* Long division of the digits by 1024: <<digits of the quotient, remainder>>.
DivideBy1024(digits, quotient, remainder) ==
  IF digits = <<>> THEN <<quotient, remainder>>
  ELSE LET r == remainder * 10 + Head(digits)
       IN DivideBy1024(Tail(digits), quotient \o <<r \div 1024>>, r % 1024)

RECURSIVE UnitLoopAbove(_, _, _, _)
\* UnitLoop with `value > 1024` for `value >= 1024`.
UnitLoopAbove(negative, whole, fraction, unitIndex) ==
  IF ~negative /\ AtLeast1024(whole) /\ DropZeros(whole) # <<1, 0, 2, 4>>
       /\ unitIndex < Len(units) - 1
  THEN LET qr == DivideBy1024(whole, <<>>, 0)
       IN UnitLoopAbove(negative, qr[1], <<qr[2]>> \o fraction, unitIndex + 1)
  ELSE [whole |-> whole, fraction |-> fraction, unitIndex |-> unitIndex]

RECURSIVE UnitLoop(_, _, _, _)
\* The while loop.  value is kept as its sign, its whole part (digits) and
\* its fraction, the remainders of the divisions so far as digits of base
\* 1024, the most significant first: a division by 1024 is exact in a
\* double.  A negative value is never >= 1024.
UnitLoop(negative, whole, fraction, unitIndex) ==
  IF ~negative /\ AtLeast1024(whole) /\ unitIndex < Len(units) - 1
  THEN LET qr == DivideBy1024(whole, <<>>, 0)
       IN UnitLoop(negative, qr[1], <<qr[2]>> \o fraction, unitIndex + 1)
  ELSE [whole |-> whole, fraction |-> fraction, unitIndex |-> unitIndex]

TwoDigits(n) == IF n < 10 THEN "0" \o ToString(n) ELSE ToString(n)

RECURSIVE TimesHundred(_)
\* 100 times a fraction of base-1024 digits: <<whole part, fraction>>.
TimesHundred(fraction) ==
  IF fraction = <<>> THEN <<0, <<>>>>
  ELSE LET lower == TimesHundred(Tail(fraction))
           t == Head(fraction) * 100 + lower[1]
       IN <<t \div 1024, <<t % 1024>> \o lower[2]>>

\* value.toFixed(2): the nearest hundredth of the exact value, a tie going up.
toFixed2(negative, whole, fraction) ==
  LET scaled == TimesHundred(fraction)
      up == IF scaled[2] # <<>> /\ scaled[2][1] >= 512 THEN 1 ELSE 0
      hundredths == DigitsToNat(whole) * 100 + scaled[1] + up
  IN (IF negative /\ hundredths > 0 THEN "-" ELSE "")
       \o ToString(hundredths \div 100) \o "." \o TwoDigits(hundredths % 100)

\* formatFileSize with `if (!bytes)` for `if (isNaN(bytes))`: zero is "N/A".
formatFileSizeZeroIsNA(size) ==
  IF ~Truthy(size) THEN "N/A"
  ELSE LET bytes == parseInt(size)
       IN IF bytes.nan \/ IsZero(bytes.digits) THEN "N/A"
          ELSE LET loop == UnitLoop(bytes.negative, bytes.digits, <<>>, 0)
               IN toFixed2(bytes.negative, loop.whole, loop.fraction)
                    \o " " \o units[loop.unitIndex + 1]

formatFileSize(size) ==
  IF ~Truthy(size) THEN "N/A"
  ELSE LET bytes == parseInt(size)
       IN IF bytes.nan THEN "N/A"
          ELSE LET loop == UnitLoop(bytes.negative, bytes.digits, <<>>, 0)
               IN toFixed2(bytes.negative, loop.whole, loop.fraction)
                    \o " " \o units[loop.unitIndex + 1]

(***************************************************************************)
(* formatFileTime.  A BigInt is a sign and its decimal digits, so that a    *)
(* FILETIME of eighteen digits needs no wide integer: the division by      *)
(* 10000n drops four digits, and the milliseconds are split into days and  *)
(* milliseconds of the day by long division.                                *)
(***************************************************************************)
MsPerDay == 86400000

\* epochDiffMs = 11644473600000 ms is 134774 days, 1601-01-01 to 1970-01-01.
EpochDiffDays == 134774

\* A Date holds at most 8.64e15 ms, that is 100000000 days, either side of 1970.
MaxDateDays == 100000000

BigIntOf(negative, digits) == [ok |-> TRUE, negative |-> negative, digits |-> digits]
SyntaxError == [ok |-> FALSE]

AllIn(s, digits) == \A i \in 1..Len(s) : s[i] \in DOMAIN digits

BinDigits == "0" :> 0 @@ "1" :> 1
OctDigits ==
  "0" :> 0 @@ "1" :> 1 @@ "2" :> 2 @@ "3" :> 3 @@ "4" :> 4 @@ "5" :> 5 @@ "6" :> 6 @@ "7" :> 7

\* StringToBigInt: the whole trimmed text must be a literal; "" is 0n.
StringToBigInt(s) ==
  LET t == TrimRight(TrimLeft(s))
      signed == t # <<>> /\ Head(t) \in {"-", "+"}
      u == IF signed THEN Tail(t) ELSE t
      prefixed == Len(t) >= 2 /\ t[1] = "0"
      body == SubSeq(t, 3, Len(t))
  IN IF t = <<>> THEN BigIntOf(FALSE, <<0>>)
     ELSE IF prefixed /\ t[2] \in {"x", "X"}
     THEN IF body # <<>> /\ AllIn(body, HexDigits)
          THEN BigIntOf(FALSE, DecimalDigits(DigitsValue(body, HexDigits, 16)))
          ELSE SyntaxError
     ELSE IF prefixed /\ t[2] \in {"o", "O"}
     THEN IF body # <<>> /\ AllIn(body, OctDigits)
          THEN BigIntOf(FALSE, DecimalDigits(DigitsValue(body, OctDigits, 8)))
          ELSE SyntaxError
     ELSE IF prefixed /\ t[2] \in {"b", "B"}
     THEN IF body # <<>> /\ AllIn(body, BinDigits)
          THEN BigIntOf(FALSE, DecimalDigits(DigitsValue(body, BinDigits, 2)))
          ELSE SyntaxError
     ELSE IF u # <<>> /\ AllIn(u, DecDigits)
     THEN BigIntOf(Head(t) = "-", [i \in 1..Len(u) |-> DecDigits[u[i]]])
     ELSE SyntaxError

\* BigInt(v): a string is parsed, an integral number and a boolean convert,
\* undefined, null and objects throw.
BigInt(v) ==
  CASE v.t = "string" -> StringToBigInt(v.s)
    [] v.t = "number" -> BigIntOf(v.n < 0, DecimalDigits(IF v.n < 0 THEN 0 - v.n ELSE v.n))
    [] v.t = "boolean" -> BigIntOf(FALSE, IF v.b THEN <<1>> ELSE <<0>>)
    [] OTHER -> SyntaxError

\* bigIntTime / 10000n: the magnitude loses its last four decimal digits.
DivideBy10000(digits) ==
  IF Len(digits) <= 4 THEN <<0>> ELSE SubSeq(digits, 1, Len(digits) - 4)

RECURSIVE DivMod(_, _, _, _)
\* Long division of the digits by d: <<quotient, remainder>>.
DivMod(digits, d, quotient, remainder) ==
  IF digits = <<>> THEN <<quotient, remainder>>
  ELSE LET r == remainder * 10 + Head(digits)
       IN DivMod(Tail(digits), d, quotient * 10 + r \div d, r % d)

\* unixMs = windowsMs - epochDiffMs, as <<days since 1970, ms of that day>>.
UnixTime(negative, msDigits) ==
  LET qr == DivMod(msDigits, MsPerDay, 0, 0)
      day == IF negative
             THEN IF qr[2] > 0 THEN 0 - qr[1] - 1 ELSE 0 - qr[1]
             ELSE qr[1]
      ms == IF negative /\ qr[2] > 0 THEN MsPerDay - qr[2] ELSE qr[2]
  IN <<day - EpochDiffDays, ms>>

\* new Date(unixMs) is an invalid date beyond 8.64e15 ms.
ValidDate(t) ==
  /\ t[1] >= 0 - MaxDateDays
  /\ t[1] < MaxDateDays \/ (t[1] = MaxDateDays /\ t[2] = 0)

\* The local time: the zone is zone minutes east of UTC.
LocalTime(t, zone) ==
  LET ms == t[2] + zone * 60000
  IN <<t[1] + ms \div MsPerDay, ms % MsPerDay>>

\* The calendar date of a day number (days since 1970-01-01).
CivilFromDays(days) ==
  LET z == days + 719468
      era == z \div 146097
      doe == z - era * 146097
      yoe == (doe - doe \div 1460 + doe \div 36524 - doe \div 146096) \div 365
      doy == doe - (365 * yoe + yoe \div 4 - yoe \div 100)
      mp == (5 * doy + 2) \div 153
      d == doy - (153 * mp + 2) \div 5 + 1
      m == IF mp < 10 THEN mp + 3 ELSE mp - 9
  IN [year |-> yoe + era * 400 + (IF m <= 2 THEN 1 ELSE 0), month |-> m, date |-> d]

\* dateObj.toLocaleString(): the local date and time of day, in one fixed layout.
toLocaleString(local) ==
  LET c == CivilFromDays(local[1])
      seconds == local[2] \div 1000
  IN ToString(c.year) \o "-" \o TwoDigits(c.month) \o "-" \o TwoDigits(c.date) \o " "
       \o TwoDigits(seconds \div 3600) \o ":" \o TwoDigits((seconds \div 60) % 60)
       \o ":" \o TwoDigits(seconds % 60)

\* formatFileTime with the placeholder test on the UTC date (getUTCFullYear,
\* getUTCMonth, getUTCDate) instead of the local one.
formatFileTimeUtcPlaceholder(fileTime, zone) ==
  IF ~Truthy(fileTime) \/ fileTime = Str(<<>>) \/ fileTime = Str(<<"0">>) THEN "No date"
  ELSE LET bigIntTime == BigInt(fileTime)
       IN IF ~bigIntTime.ok THEN "Invalid date"
          ELSE IF IsZero(bigIntTime.digits) THEN "No date"
          ELSE LET windowsMs == DivideBy10000(bigIntTime.digits)
                   unixMs == UnixTime(bigIntTime.negative /\ ~IsZero(windowsMs), windowsMs)
                   local == LocalTime(unixMs, zone)
                   c == CivilFromDays(unixMs[1])
               IN IF ~ValidDate(unixMs) THEN "Invalid Date"
                  ELSE IF c.year = 1980 /\ c.month - 1 = 1 /\ c.date = 1 THEN "No date"
                  ELSE toLocaleString(local)

formatFileTime(fileTime, zone) ==
  IF ~Truthy(fileTime) \/ fileTime = Str(<<>>) \/ fileTime = Str(<<"0">>) THEN "No date"
  ELSE LET bigIntTime == BigInt(fileTime)
       IN IF ~bigIntTime.ok THEN "Invalid date"
          ELSE IF IsZero(bigIntTime.digits) THEN "No date"
          ELSE LET windowsMs == DivideBy10000(bigIntTime.digits)
                   unixMs == UnixTime(bigIntTime.negative /\ ~IsZero(windowsMs), windowsMs)
                   local == LocalTime(unixMs, zone)
                   c == CivilFromDays(local[1])
               IN IF ~ValidDate(unixMs) THEN "Invalid Date"
                  ELSE IF c.year = 1980 /\ c.month - 1 = 1 /\ c.date = 1 THEN "No date"
                  ELSE toLocaleString(local)

(***************************************************************************)
(* The callTool handler after searchFiles has its response.                *)
(***************************************************************************)
Thrown(error) == [kind |-> "error", error |-> error]
TextContent(text) == [kind |-> "text", text |-> text]

\* ValidResponse with a check of the type: typeof totalResults === 'number'.
ValidResponseNumeric(data) == Truthy(data) /\ Get(data, "totalResults").t = "number"

\* "Validate response structure": the body is truthy and has totalResults.
ValidResponse(data) == Truthy(data) /\ Get(data, "totalResults") # Undefined

\* NormalizeJs without the assignment totalResults = 0.
NormalizeJsKeepTotal(data) ==
  IF ~Truthy(Get(data, "results"))
  THEN Obj([data.f EXCEPT !.results = Arr(<<>>)])
  ELSE data

\* server.js only: a response without results becomes an empty one.
NormalizeJs(data) ==
  IF ~Truthy(Get(data, "results"))
  THEN Obj([data.f EXCEPT !.results = Arr(<<>>), !.totalResults = Num(0)])
  ELSE data

\* What searchFiles returns for a valid response.
searchFilesResult(v, data) == IF v = "js" THEN NormalizeJs(data) ELSE data

\* One block of the text; reading a property of null or undefined throws.
FormatEntry(result, zone) ==
  LET size == IF Get(result, "type") = Str(<<"f","o","l","d","e","r">>)
              THEN "(folder)"
              ELSE formatFileSize(Get(result, "size"))
      date == formatFileTime(Get(result, "date_modified"), zone)
  IN "Name: " \o ToStr(Get(result, "name")) \o "\nPath: " \o ToStr(Get(result, "path"))
       \o "\nSize: " \o size \o "\nModified: " \o date \o "\n"

RECURSIVE JoinBlocksLastFirst(_, _)
\* JoinBlocks on the reversed list: results.reverse().map(...).join("\n")
JoinBlocksLastFirst(results, zone) ==
  IF Len(results) = 1 THEN FormatEntry(results[1], zone)
  ELSE JoinBlocksLastFirst(Tail(results), zone) \o "\n" \o FormatEntry(Head(results), zone)

RECURSIVE JoinBlocks(_, _)
\* results.map(...).join("\n")
JoinBlocks(results, zone) ==
  IF Len(results) = 1 THEN FormatEntry(results[1], zone)
  ELSE FormatEntry(Head(results), zone) \o "\n" \o JoinBlocks(Tail(results), zone)

\* results.results.length > 0
HasLength(r) ==
  CASE r.t = "array" -> Len(r.a) > 0
    [] r.t = "string" -> Len(r.s) > 0
    [] OTHER -> FALSE

Nullish(v) == v.t \in {"undefined", "null"}

summaryJs(results) == "Found " \o ToStr(Get(results, "totalResults")) \o " results:\n\n"

summaryTs(results) ==
  LET total == Get(results, "totalResults")
  IN "Found " \o ToStr(IF Truthy(total) THEN total ELSE Num(0)) \o " results:\n\n"

\* summary with the count taken from the list instead of totalResults.
summaryOfList(v, results) ==
  LET r == Get(results, "results")
  IN "Found " \o ToString(IF r.t = "array" THEN Len(r.a) ELSE 0) \o " results:\n\n"

summary(v, results) == IF v = "js" THEN summaryJs(results) ELSE summaryTs(results)

\* The handler's formatting of what searchFiles returned.
FormatResults(v, results, zone) ==
  LET r == Get(results, "results")
      nonEmpty == IF v = "js" THEN HasLength(r) ELSE Truthy(r) /\ HasLength(r)
  IN IF ~nonEmpty THEN TextContent(summary(v, results) \o "No results found")
     ELSE IF r.t # "array"
     THEN Thrown(TypeError("results.results.map is not a function"))
     ELSE IF \E i \in 1..Len(r.a) : Nullish(r.a[i])
     THEN Thrown(TypeError("Cannot read properties of null (reading 'type')"))
     ELSE TextContent(summary(v, results) \o JoinBlocks(r.a, zone))

\* The rest of the invocation once axios.get resolved with this body.
OnResolved(v, data, zone) ==
  IF ~ValidResponse(data) THEN Thrown(Classify(Error(InvalidResponseMessage)))
  ELSE FormatResults(v, searchFilesResult(v, data), zone)

\* The rest of the invocation once axios.get rejected.
OnRejected(error) == Thrown(Classify(error))

(***************************************************************************)
(* The inputs: argument bags of the caller, bodies of the engine.          *)
(***************************************************************************)
MaxInFlight == 1

None == [t |-> "none"]

NameText == <<"n","a","m","e">>
BogusText == <<"b","o","g","u","s">>
DriveC == <<"C", ":">>

\* An argument bag: the keys of `set` are present, the others absent.
Bag(set) == Obj([k \in Keys |-> IF k \in DOMAIN set THEN set[k] ELSE Undefined])

Queries == { <<>>, <<"a">> }
Scopes == { <<>>, DriveC, <<"C", ":", "\\">>, <<"D", ":", "\\", "x">>, <<"\\">> }

\* One key set beside the query, valid and invalid values alike.
Variations ==
  { <<"caseSensitive", Bool(TRUE)>>, <<"caseSensitive", Str(<<"1">>)>>,
    <<"wholeWord", Bool(TRUE)>>, <<"regex", Bool(TRUE)>>, <<"path", Bool(TRUE)>>,
    <<"maxResults", Num(0)>>, <<"maxResults", Num(1)>>, <<"maxResults", Num(1000)>>,
    <<"maxResults", Num(1001)>>, <<"maxResults", Str(<<"5">>)>>,
    <<"sortBy", Str(BogusText)>>, <<"sortBy", Str(<<"s","i","z","e">>)>>,
    <<"sortBy", Str(<<"d","a","t","e","_","m","o","d","i","f","i","e","d">>)>>,
    <<"ascending", Bool(FALSE)>>,
    <<"offset", Num(7)>>, <<"offset", Num(0 - 1)>>,
    <<"scope", Num(1)>> }

ArgBags ==
  { Undefined, Bag(<<>>), Bag([query |-> Num(7)]),
    Bag([scope |-> Str(DriveC), maxResults |-> Num(5)]),
    Bag([query |-> Num(7), maxResults |-> Num(5000), sortBy |-> Str(BogusText)]),
    Bag([query |-> Str(<<"a">>), scope |-> Str(<<"D", ":">>), caseSensitive |-> Bool(TRUE),
         wholeWord |-> Bool(TRUE), regex |-> Bool(TRUE), path |-> Bool(TRUE),
         maxResults |-> Num(10), sortBy |-> Str(<<"p","a","t","h">>),
         ascending |-> Bool(TRUE), offset |-> Num(20)]) }
    \cup { Bag([query |-> Str(q)]) : q \in Queries }
    \cup { Bag([query |-> Str(<<"a">>), scope |-> Str(s)]) : s \in Scopes }
    \cup { Bag([query |-> Str(<<>>), scope |-> Str(<<"C", ":", "\\">>)]) }
    \cup { Bag(("query" :> Str(<<"a">>)) @@ (kv[1] :> kv[2])) : kv \in Variations }

\* What a caller sends: the tool name and the argument bag.
ToolCalls ==
  { [name |-> "search", arguments |-> args] : args \in ArgBags }
    \cup { [name |-> "read", arguments |-> Bag([query |-> Str(<<"a">>)])] }

\* Entries of the engine: name and path, and optionally size, date_modified, type.
Entry(name, size, date, type) ==
  Obj([name |-> Str(name), path |-> Str(<<"C", ":", "\\">>), size |-> size,
       date_modified |-> date, type |-> type])

FolderText == <<"f","o","l","d","e","r">>
Ticks2023 == <<"1","3","3","4","8","0","3","2","0","0","0","0","0","0","0","0","0","0">>
Ticks1980 == <<"1","1","9","6","2","6","8","4","8","0","0","0","0","0","0","0","0","0">>

FileA == Entry(<<"a">>, Str(<<"1","0","2","4">>), Str(Ticks2023), Undefined)
FileB == Entry(<<"b">>, Str(<<"0">>), Str(<<"0">>), Undefined)
FileC == Entry(<<"c">>, Undefined, Undefined, Undefined)
FileD == Entry(<<"d">>, Str(<<"1","2","k","B">>), Str(<<"n","o">>), Undefined)
FileE == Entry(<<"e">>, Str(<<>>), Str(Ticks1980), Undefined)
FileF == Entry(<<"f">>, Str(<<"1","5","3","7">>), Str(<<>>), Str(<<"f","i","l","e">>))
FolderG == Entry(<<"g">>, Str(<<"4","0","9","6">>), Str(Ticks2023), Str(FolderText))
FolderH == Entry(<<"h">>, Undefined, Str(<<"0">>), Str(FolderText))

ResultLists ==
  { <<FileA>>, <<FileB>>, <<FileC>>, <<FileD>>, <<FileE>>, <<FileF>>,
    <<FolderG>>, <<FolderH>>, <<FileA, FileB>>, <<FileB, FileA>>, <<FileA, FileA>>,
    <<FolderG, FileC, FileF>> }

Data(total, results) == Obj([totalResults |-> total, results |-> results])

Totals == { Undefined, Null, Num(0), Num(3), Str(<<"m","a","n","y">>) }

\* The bodies axios.get can resolve with: JSON of any shape, or none.
ResponseBodies ==
  { Undefined, Null, Str(<<>>), Str(<<"<", "h", ">">>), Arr(<<>>) }
    \cup { Data(t, r) : t \in Totals,
                        r \in {Undefined, Arr(<<>>), Arr(<<FileA>>), Str(<<"x">>)} }
    \cup { Data(Num(Len(l)), Arr(l)) : l \in ResultLists }

TimeZones == {0 - 480, 0, 540}

\* The zones the handler is run in: one west of UTC and UTC itself.
HandlerZones == {0 - 480, 0}

(***************************************************************************)
(* The state: the build, the zone of the process, and the invocations in   *)
(* flight.  An invocation is idle, waits for its 100 ms timer ("delay"),   *)
(* waits for axios.get ("http"), or has settled ("done").  `args`,         *)
(* `params` and `request` are the handler's locals, gone once it settles   *)
(* from the response; `results` is what searchFiles returned to the        *)
(* handler; `gets` counts the GETs the invocation issued.                  *)
(***************************************************************************)
Idle ==
  [pc |-> "idle", name |-> "", args |-> None, params |-> None, request |-> None,
   reply |-> None, results |-> None, outcome |-> None, delayed |-> FALSE, gets |-> 0]

NoFormat == [fn |-> "none", input |-> None, done |-> FALSE, output |-> ""]

Slots == 1..MaxInFlight

Init ==
  /\ variant \in {"js", "ts"}
  /\ tz \in HandlerZones
  /\ calls = [i \in Slots |-> Idle]
  /\ fmt = NoFormat

\* callTool up to the first await: name check, SearchSchema.parse, setTimeout.
CallTool(i, request) ==
  /\ calls[i].pc = "idle"
  /\ LET name == request.name
         args == request.arguments
         parsed == SchemaParse(SearchSchema(variant), args)
     IN calls' = [calls EXCEPT ![i] =
          IF name # "search"
          THEN [Idle EXCEPT !.pc = "done", !.name = name, !.args = args,
                            !.outcome = Thrown(Error("Unknown tool: " \o name))]
          ELSE IF ~parsed.ok
          THEN [Idle EXCEPT !.pc = "done", !.name = name, !.args = args,
                            !.outcome = Thrown(ZodError(parsed.issues))]
          ELSE [Idle EXCEPT !.pc = "delay", !.name = name, !.args = args,
                            !.params = parsed.data, !.delayed = TRUE]]
  /\ UNCHANGED <<variant, tz, fmt>>

\* Dispatch with coalescing: an invocation that finds another one waiting
\* on its GET shares that GET instead of issuing its own.
DispatchCoalesced(i) ==
  /\ calls[i].pc = "delay"
  /\ LET others == {j \in DOMAIN calls : j # i /\ calls[j].pc = "http"}
     IN calls' = [calls EXCEPT
          ![i].pc = "http",
          ![i].request = IF others = {} THEN BuildRequest(variant, calls[i].params)
                         ELSE calls[CHOOSE j \in others : TRUE].request,
          ![i].gets = IF others = {} THEN @ + 1 ELSE @]
  /\ UNCHANGED <<variant, tz, fmt>>

\* The timer fired: searchFiles builds the query and calls axios.get.
Dispatch(i) ==
  /\ calls[i].pc = "delay"
  /\ calls' = [calls EXCEPT ![i].pc = "http",
                            ![i].request = BuildRequest(variant, calls[i].params),
                            ![i].gets = @ + 1]
  /\ UNCHANGED <<variant, tz, fmt>>

\* axios.get resolved: validation, formatting and the return, in one turn.
Resolve(i, data) ==
  /\ calls[i].pc = "http"
  /\ calls' = [calls EXCEPT ![i] =
       [Idle EXCEPT !.pc = "done", !.name = calls[i].name, !.delayed = TRUE,
                    !.gets = calls[i].gets,
                    !.reply = [ok |-> TRUE, data |-> data],
                    !.results = IF ValidResponse(data)
                                THEN searchFilesResult(variant, data) ELSE None,
                    !.outcome = OnResolved(variant, data, tz)]]
  /\ UNCHANGED <<variant, tz, fmt>>

\* Reject with a retry: the catch block issues the GET again.
RejectAndRetry(i, cause) ==
  /\ calls[i].pc = "http"
  /\ cause \in FailureCauses
  /\ calls' = [calls EXCEPT ![i].gets = @ + 1]
  /\ UNCHANGED <<variant, tz, fmt>>

\* axios.get rejected: the catch block rethrows.
Reject(i, cause) ==
  /\ calls[i].pc = "http"
  /\ \E error \in AxiosFailures(calls[i].request) :
       /\ error.cause = cause
       /\ calls' = [calls EXCEPT ![i] =
            [Idle EXCEPT !.pc = "done", !.name = calls[i].name, !.delayed = TRUE,
                         !.gets = calls[i].gets,
                         !.reply = [ok |-> FALSE, error |-> error],
                         !.outcome = OnRejected(error)]]
  /\ UNCHANGED <<variant, tz, fmt>>

\* The caller has its result; the slot is free for the next invocation.
Return(i) ==
  /\ calls[i].pc = "done"
  /\ calls' = [calls EXCEPT ![i] = Idle]
  /\ UNCHANGED <<variant, tz, fmt>>

Next ==
  \/ \E i \in Slots, request \in ToolCalls : CallTool(i, request)
  \/ \E i \in Slots : Dispatch(i)
  \/ \E i \in Slots, data \in ResponseBodies : Resolve(i, data)
  \/ \E i \in Slots, cause \in FailureCauses : Reject(i, cause)
  \/ \E i \in Slots : Return(i)

Spec == Init /\ [][Next]_vars

(***************************************************************************)
(* The formatters on their own: every text of a bounded length over a      *)
(* small alphabet, and the values that are not text.                       *)
(***************************************************************************)
MaxSizeLen == 3

SizeAlphabet == {"0", "1", "9", "a", "x", " ", "-"}

Texts(alphabet, n) == UNION { [1..k -> alphabet] : k \in 0..n }

\* Sizes at the unit boundaries and beyond the last unit.
SizeSamples ==
  { <<"1","0","2","3">>,
    <<"1","0","2","4">>,
    <<"1","0","3","0">>,
    <<"1","1","5","2">>,
    <<"1","5","3","7">>,
    <<"1","0","4","8","5","7","5">>,
    <<"1","0","4","8","5","7","6">>,
    <<"1","0","7","3","7","4","1","8","2","3">>,
    <<"1","0","7","3","7","4","1","8","2","4">>,
    <<"2","1","4","7","4","8","3","6","4","8">>,
    <<"1","2","3","4","5","6","7","8","9","0","1","2">>,
    <<"1","0","9","9","5","1","1","6","2","7","7","7","5">>,
    <<"1","0","9","9","5","1","1","6","2","7","7","7","6">>,
    <<"1","6","4","9","2","6","7","4","4","1","6","6","4">>,
    <<"1","0","0","0","0","0","0","0","0","0","0","0","0","0","0","0">>,
    <<"1","1","2","5","8","9","9","9","0","6","8","4","2","6","2","3">>,
    <<"1","1","2","5","8","9","9","9","0","6","8","4","2","6","2","4">>,
    <<"5","6","2","9","4","9","9","5","3","4","2","1","3","1","2","0">> }

SizeInputs ==
  { Undefined, Null, Num(0), Num(1), Num(1024), Bool(TRUE), Bool(FALSE) }
    \cup { Str(s) : s \in Texts(SizeAlphabet, MaxSizeLen) }
    \cup { Str(s) : s \in SizeSamples }

MaxTimeLen == 2

TimeAlphabet == {"0", "1", "a", "x", " ", "-", "."}

\* Tick counts around the placeholder date, 1980-02-01, and away from it.
TicksJan31At1500 == <<"1","1","9","6","2","6","5","2","4","0","0","0","0","0","0","0","0","0">>
TicksJan31At1600 == <<"1","1","9","6","2","6","5","6","0","0","0","0","0","0","0","0","0","0">>
TicksJan31AtLast == <<"1","1","9","6","2","6","8","4","7","9","9","9","9","9","9","9","9","9">>
TicksFeb01At0800 == <<"1","1","9","6","2","7","1","3","6","0","0","0","0","0","0","0","0","0">>
TicksFeb01At1500 == <<"1","1","9","6","2","7","3","8","8","0","0","0","0","0","0","0","0","0">>
TicksFeb02At0000 == <<"1","1","9","6","2","7","7","1","2","0","0","0","0","0","0","0","0","0">>
TicksFeb02At0800 == <<"1","1","9","6","2","8","0","0","0","0","0","0","0","0","0","0","0","0">>
TicksJan01Of1980 == <<"1","1","9","6","0","0","4","9","6","0","0","0","0","0","0","0","0","0">>
TicksMar01Of1980 == <<"1","1","9","6","5","2","3","3","6","0","0","0","0","0","0","0","0","0">>
TicksFeb01Of1981 == <<"1","1","9","9","4","3","5","0","4","0","0","0","0","0","0","0","0","0">>
\* The largest 64-bit tick count, and a count no Date can hold.
TicksMax64 == <<"1","8","4","4","6","7","4","4","0","7","3","7","0","9","5","5","1","6","1","5">>
TicksBeyondDate == <<"9","0","0","0","0","0","0","0","0","0","0","0","0","0","0","0","0","0","0","0">>

TickSamples ==
  { Ticks1980, Ticks2023, TicksJan31At1500, TicksJan31At1600, TicksJan31AtLast,
    TicksFeb01At0800, TicksFeb01At1500, TicksFeb02At0000, TicksFeb02At0800,
    TicksJan01Of1980, TicksMar01Of1980, TicksFeb01Of1981, TicksMax64, TicksBeyondDate }

TimeInputs ==
  { Undefined, Null, Num(0), Num(5), Bool(TRUE), Bool(FALSE) }
    \cup { Str(s) : s \in Texts(TimeAlphabet, MaxTimeLen) }
    \cup { Str(s) : s \in TickSamples }
    \cup { Str(<<"-">> \o s) : s \in {Ticks1980, Ticks2023} }
    \cup { Str(<<" ">> \o s \o <<" ">>) : s \in {Ticks1980, Ticks2023} }
    \cup { Str(s \o <<".", "5">>) : s \in {Ticks1980, Ticks2023} }
    \cup { Str(<<"0", "x", "0">>), Str(<<"0", "x", "1", "0">>), Str(<<"0", "x", "g">>),
           Str(<<"0", "b", "1", "0">>), Str(<<"0", "o", "1", "7">>), Str(<<"-", "0", "x", "1">>),
           Str(<<"1", "e", "3">>), Str(<<"5", "0", "0", "0", "0">>),
           Str(<<"-", "5", "0", "0", "0", "0">>), Str(<<"0", "0", "0">>),
           Str(<<"N", "a", "N">>), Str(<<"1", "2", "a">>) }

\* A formatter call: its argument, and its result once it has run.
Pending(fn, input) == [fn |-> fn, input |-> input, done |-> FALSE, output |-> ""]

InitFormat ==
  /\ variant \in {"js", "ts"}
  /\ tz \in TimeZones
  /\ calls = [i \in Slots |-> Idle]
  /\ fmt \in { Pending("formatFileSize", size) : size \in SizeInputs }
             \cup { Pending("formatFileTime", fileTime) : fileTime \in TimeInputs }

FormatSize ==
  /\ fmt.fn = "formatFileSize"
  /\ ~fmt.done
  /\ fmt' = [fmt EXCEPT !.done = TRUE, !.output = formatFileSize(fmt.input)]
  /\ UNCHANGED <<variant, tz, calls>>

FormatTime ==
  /\ fmt.fn = "formatFileTime"
  /\ ~fmt.done
  /\ fmt' = [fmt EXCEPT !.done = TRUE, !.output = formatFileTime(fmt.input, tz)]
  /\ UNCHANGED <<variant, tz, calls>>

NextFormat == FormatSize \/ FormatTime

SpecFormat == InitFormat /\ [][NextFormat]_vars

(***************************************************************************)
(* Invocations in flight at once: the handler is async, so a second        *)
(* callTool can start while the first waits on its timer or on its GET.    *)
(* The same operations run on MaxConcurrent invocations, over a few calls  *)
(* and a few answers of the engine.                                         *)
(***************************************************************************)
MaxConcurrent == 2

Callers == 1..MaxConcurrent

QueryOnly == Bag([query |-> Str(<<"a">>)])

ScopedAndSorted ==
  Bag([query |-> Str(<<"a">>), scope |-> Str(<<"D", ":", "\\", "x">>),
       maxResults |-> Num(5), sortBy |-> Str(<<"s","i","z","e">>),
       ascending |-> Bool(FALSE)])

ConcurrentCalls ==
  { [name |-> "search", arguments |-> args] : args \in {QueryOnly, ScopedAndSorted, Bag(<<>>)} }

TwoEntries == Data(Num(2), Arr(<<FileB, FileC>>))

ConcurrentBodies == { TwoEntries, Data(Num(3), Undefined), Undefined }

ConcurrentCauses == {"refused", "reset"}

InitConcurrent ==
  /\ variant \in {"js", "ts"}
  /\ tz \in HandlerZones
  /\ calls = [i \in Callers |-> Idle]
  /\ fmt = NoFormat

NextConcurrent ==
  \/ \E i \in Callers, request \in ConcurrentCalls : CallTool(i, request)
  \/ \E i \in Callers : Dispatch(i)
  \/ \E i \in Callers, data \in ConcurrentBodies : Resolve(i, data)
  \/ \E i \in Callers, cause \in ConcurrentCauses : Reject(i, cause)
  \/ \E i \in Callers : Return(i)

SpecConcurrent == InitConcurrent /\ [][NextConcurrent]_vars

(***************************************************************************)
(* The claims.                                                             *)
(***************************************************************************)
InFlight(i) == calls[i].pc = "http"
Settled(i) == calls[i].pc = "done"

\* C1: every GET issued to the engine carries a count that is a number from
\* 1 to 1000: no invocation waits on a request with count < 1 or count > 1000.
C1_CountInRange ==
  \A i \in Slots :
    InFlight(i) =>
      /\ calls[i].gets = 1
      /\ calls[i].request.count.t = "number"
      /\ calls[i].request.count.n >= 1
      /\ calls[i].request.count.n <= 1000

C1_Witness ==
  \E i \in Slots :
    /\ InFlight(i)
    /\ Get(calls[i].args, "maxResults") = Num(1000)
    /\ calls[i].request.count = Num(1000)

\* The arguments the claim C2 calls invalid.
MissingOrBadQuery(args) == Get(args, "query").t # "string"
MaxResultsOutOfRange(args) ==
  LET m == Get(args, "maxResults")
  IN m.t = "number" /\ (m.n < 1 \/ m.n > 1000)
BadSortBy(args) ==
  LET o == Get(args, "sortBy")
  IN o # Undefined /\ ~(o.t = "string" /\ o.s \in SortNames)
InvalidArguments(args) ==
  MissingOrBadQuery(args) \/ MaxResultsOutOfRange(args) \/ BadSortBy(args)

\* C2: a search call with a missing or non-string query, a maxResults outside
\* [1,1000] or a sortBy outside the four names fails with a validation error,
\* with no delay started and no GET issued.
C2_InvalidFailsBeforeDispatch ==
  \A i \in Slots :
    (calls[i].name = "search" /\ calls[i].args # None /\ InvalidArguments(calls[i].args)) =>
      /\ Settled(i)
      /\ calls[i].outcome.kind = "error"
      /\ calls[i].outcome.error.name = "ZodError"
      /\ ~calls[i].delayed
      /\ calls[i].gets = 0

C2_Witness ==
  \E i \in Slots :
    /\ Settled(i)
    /\ calls[i].name = "search"
    /\ calls[i].args # None
    /\ BadSortBy(calls[i].args)
    /\ ~MissingOrBadQuery(calls[i].args)
    /\ calls[i].outcome = Thrown(ZodError({"sortBy"}))
    /\ calls[i].gets = 0

\* The request supplies the query and nothing else.
OnlyQuery(args) ==
  /\ args.t = "object"
  /\ Get(args, "query").t = "string"
  /\ \A k \in Keys \ {"query"} : Get(args, k) = Undefined

\* C3: a search request that supplies only `query` goes out with count=100,
\* sort=name, ascending=1, case=0, wholeword=0, regex=0, path=0, offset=0, and
\* the scope used to build the query is "C:".
C3_DocumentedDefaults ==
  \A i \in Slots :
    (InFlight(i) /\ OnlyQuery(calls[i].args)) =>
      /\ calls[i].request.count = Num(100)
      /\ calls[i].request.sort = Str(NameText)
      /\ calls[i].request.ascending = Num(1)
      /\ calls[i].request.case = Num(0)
      /\ calls[i].request.wholeword = Num(0)
      /\ calls[i].request.regex = Num(0)
      /\ calls[i].request.path = Num(0)
      /\ calls[i].request.offset = Num(0)
      /\ calls[i].params.scope = Str(DriveC)

\* The search term the claim C4 states, for a scope and a query.
ScopedQuery(scope, query) ==
  IF scope = <<>> THEN query
  ELSE IF scope[Len(scope)] = "\\" THEN scope \o query
  ELSE scope \o <<"\\">> \o query

\* The search term of part_000: "C:" counts as no scope, and the backslash
\* is inserted whatever the scope ends with.
ScopedQueryTs(scope, query) ==
  IF scope = <<>> \/ scope = DriveC THEN query
  ELSE scope \o <<"\\">> \o query

\* C4 as stated: for every validated request the search parameter is
\* scope + query when the scope ends with a backslash, scope + "\" + query
\* when it is non-empty and does not (the default "C:" included), and the
\* plain query when the scope is empty.
C4_ScopeRule ==
  \A i \in Slots :
    InFlight(i) =>
      calls[i].request.search =
        Str(ScopedQuery(calls[i].params.scope.s, calls[i].params.query.s))

\* C4 as amended: the stated rule is the rule of server.js; part_000 sends
\* the plain query for the scopes "" and "C:", and scope + "\" + query for
\* every other scope, also for one that ends with a backslash.
C4_ScopeRulePerBuild ==
  \A i \in Slots :
    InFlight(i) =>
      calls[i].request.search =
        Str(IF variant = "js"
            THEN ScopedQuery(calls[i].params.scope.s, calls[i].params.query.s)
            ELSE ScopedQueryTs(calls[i].params.scope.s, calls[i].params.query.s))

C4_Witness ==
  \E i \in Slots :
    /\ InFlight(i)
    /\ variant = "js"
    /\ calls[i].params.scope = Str(<<"C", ":", "\\">>)
    /\ calls[i].params.query = Str(<<"a">>)
    /\ calls[i].request.search = Str(<<"C", ":", "\\", "a">>)

\* The rejection a settled invocation's GET ended with, if it did.
Rejected(i) == Settled(i) /\ calls[i].reply # None /\ ~calls[i].reply.ok

\* C5: a refused connection yields the unavailable error that mentions
\* enabling the HTTP server, a request that exceeds the configured timeout
\* yields the timed-out error, and any other transport or status failure
\* yields "Everything Search API error: " with the underlying message.
C5_FailureClasses ==
  \A i \in Slots :
    Rejected(i) =>
      LET error == calls[i].reply.error
      IN calls[i].outcome =
           Thrown(Error(
             CASE error.cause = "refused" -> UnavailableMessage
               [] error.cause \in {"timeout", "connect-timeout"} -> TimedOutMessage
               [] OTHER -> "Everything Search API error: " \o error.message))

\* The GET of a settled invocation failed: axios rejected, or the body did
\* not pass the handler's shape check.
GetFailed(i) ==
  /\ Settled(i)
  /\ calls[i].reply # None
  /\ \/ ~calls[i].reply.ok
     \/ calls[i].reply.ok /\ ~ValidResponse(calls[i].reply.data)

\* C6: an invocation issues at most one GET; once that GET has failed the
\* invocation has settled with a tool-call error, never with a text, and
\* its count of GETs stays at one.
C6_AtMostOneGetNoRetry ==
  \A i \in Slots :
    /\ calls[i].gets <= 1
    /\ GetFailed(i) => (calls[i].gets = 1 /\ calls[i].outcome.kind = "error")

C6_Witness ==
  \E i \in Slots :
    /\ GetFailed(i)
    /\ ~calls[i].reply.ok
    /\ calls[i].gets = 1
    /\ calls[i].outcome.kind = "error"

\* The GET of a settled invocation succeeded with this body.
Resolved(i) == Settled(i) /\ calls[i].reply # None /\ calls[i].reply.ok

InvalidResponseThrown == Thrown(Error(InvalidResponseMessage))

\* C7 as stated: a body that is absent, or whose totalResults is missing or
\* not a number (a string, null), fails with the invalid-response error and
\* returns no text.
C7_NonNumericTotalFails ==
  \A i \in Slots :
    (Resolved(i) /\ (~Truthy(calls[i].reply.data)
                       \/ Get(calls[i].reply.data, "totalResults").t # "number")) =>
      calls[i].outcome = InvalidResponseThrown

\* The body has no member totalResults: it is no object, or the key is absent.
LacksTotalResults(data) ==
  data.t # "object" \/ data.f.totalResults = Undefined

\* C7 as amended: the invocation fails with the invalid-response error, and
\* returns no text, exactly when the body is absent (falsy) or has no
\* totalResults member; a totalResults that is present with a non-number
\* value (a string, null) passes the check.
C7_MissingTotalFails ==
  \A i \in Slots :
    Resolved(i) =>
      (calls[i].outcome = InvalidResponseThrown
         <=> (~Truthy(calls[i].reply.data) \/ LacksTotalResults(calls[i].reply.data)))

C7_Witness ==
  \E i \in Slots :
    /\ Resolved(i)
    /\ calls[i].reply.data = Data(Undefined, Arr(<<FileA>>))
    /\ calls[i].outcome = InvalidResponseThrown

\* The body has a totalResults member and no results member.
TotalWithoutResults(data) ==
  /\ data.t = "object"
  /\ data.f.totalResults # Undefined
  /\ data.f.results = Undefined

\* C8 as stated: a response with totalResults and without results does not
\* fail, and the formatter is handed results = [] and totalResults = 0.
C8_MissingResultsNormalized ==
  \A i \in Slots :
    (Resolved(i) /\ TotalWithoutResults(calls[i].reply.data)) =>
      /\ calls[i].outcome.kind = "text"
      /\ calls[i].results = Data(Num(0), Arr(<<>>))

\* C8 as amended: such a response never fails; server.js hands the formatter
\* results = [] and totalResults = 0, part_000 hands it the body as it came,
\* without results and with the engine's totalResults.
C8_MissingResultsPerBuild ==
  \A i \in Slots :
    (Resolved(i) /\ TotalWithoutResults(calls[i].reply.data)) =>
      /\ calls[i].outcome.kind = "text"
      /\ variant = "js" => calls[i].results = Data(Num(0), Arr(<<>>))
      /\ variant = "ts" => calls[i].results = calls[i].reply.data

C8_Witness ==
  \E i \in Slots :
    /\ Resolved(i)
    /\ variant = "js"
    /\ calls[i].reply.data = Data(Num(3), Undefined)
    /\ calls[i].results = Data(Num(0), Arr(<<>>))
    /\ calls[i].outcome.kind = "text"

\* The body is {totalResults: n} with a number n and no results.
NumberWithoutResults(data) ==
  TotalWithoutResults(data) /\ data.f.totalResults.t = "number"

\* C9 as stated: for {totalResults: n} without results the text is
\* "Found n results:\n\nNo results found", with the engine's n.
C9_HeaderCarriesEngineTotal ==
  \A i \in Slots :
    (Resolved(i) /\ NumberWithoutResults(calls[i].reply.data)) =>
      calls[i].outcome =
        TextContent("Found " \o ToString(calls[i].reply.data.f.totalResults.n)
                      \o " results:\n\nNo results found")

\* C9 as amended: part_000 returns "Found n results:\n\nNo results found"
\* with the engine's n; server.js returns
\* "Found 0 results:\n\nNo results found" whatever n is.
C9_HeaderPerBuild ==
  \A i \in Slots :
    (Resolved(i) /\ NumberWithoutResults(calls[i].reply.data)) =>
      calls[i].outcome =
        TextContent("Found "
                      \o (IF variant = "js" THEN "0"
                          ELSE ToString(calls[i].reply.data.f.totalResults.n))
                      \o " results:\n\nNo results found")

C9_Witness ==
  \E i \in Slots :
    /\ Resolved(i)
    /\ variant = "ts"
    /\ calls[i].reply.data = Data(Num(3), Undefined)
    /\ calls[i].outcome = TextContent("Found 3 results:\n\nNo results found")

\* formatFileSize has run on fmt.input.
SizeFormatted == fmt.fn = "formatFileSize" /\ fmt.done

\* The text is a decimal integer: digits only, after an optional sign.
DecimalInteger(s) ==
  LET body == IF s # <<>> /\ Head(s) \in {"-", "+"} THEN Tail(s) ELSE s
  IN body # <<>> /\ \A k \in 1..Len(body) : body[k] \in DOMAIN DecDigits

\* C10 as stated: formatFileSize renders "N/A" when size is absent, is the
\* text "0", or is text that is not a decimal integer (empty, non-numeric,
\* digits followed by other characters).
C10_NotANumberIsNA ==
  (SizeFormatted /\ (fmt.input = Undefined
                       \/ fmt.input = Str(<<"0">>)
                       \/ (fmt.input.t = "string" /\ ~DecimalInteger(fmt.input.s)))) =>
    fmt.output = "N/A"

\* The position of the first character of s that is no white space.
FirstMark(s) ==
  IF \E k \in 1..Len(s) : s[k] \notin WhiteSpace
  THEN CHOOSE k \in 1..Len(s) :
         s[k] \notin WhiteSpace /\ \A j \in 1..(k - 1) : s[j] \in WhiteSpace
  ELSE Len(s) + 1

\* The text starts a number for parseInt: after white space and an optional
\* sign comes a decimal digit, or 0x/0X and a hexadecimal digit; a 0x/0X
\* with no hexadecimal digit behind it starts none.
StartsNumber(s) ==
  LET m == FirstMark(s)
      d == IF m <= Len(s) /\ s[m] \in {"-", "+"} THEN m + 1 ELSE m
      hex == d + 1 <= Len(s) /\ s[d] = "0" /\ s[d + 1] \in {"x", "X"}
  IN IF hex THEN d + 2 <= Len(s) /\ s[d + 2] \in DOMAIN HexDigits
     ELSE d <= Len(s) /\ s[d] \in DOMAIN DecDigits

\* C10 as amended: formatFileSize renders "N/A" when size is absent or empty
\* text, and for other text exactly when the text starts no number (after
\* white space and an optional sign); the text "0" renders "0.00 bytes",
\* and digits followed by other characters render the number the leading
\* digits spell.
C10_NoLeadingNumberIsNA ==
  SizeFormatted =>
    /\ fmt.input \in {Undefined, Str(<<>>)} => fmt.output = "N/A"
    /\ fmt.input.t = "string" => (fmt.output = "N/A" <=> ~StartsNumber(fmt.input.s))
    /\ fmt.input = Str(<<"0">>) => fmt.output = "0.00 bytes"
    /\ (fmt.input.t = "string" /\ DigitPrefix(fmt.input.s, DecDigits) # <<>>
          /\ ~(Len(fmt.input.s) >= 2 /\ fmt.input.s[2] \in {"x", "X"})) =>
         /\ fmt.output # "N/A"
         /\ fmt.output = formatFileSize(Str(DigitPrefix(fmt.input.s, DecDigits)))

C10_Witness ==
  /\ SizeFormatted
  /\ fmt.input = Str(<<"a", "1", "9">>)
  /\ fmt.output = "N/A"

\* formatFileTime has run on fmt.input.
TimeFormatted == fmt.fn = "formatFileTime" /\ fmt.done

\* The position of the last character of s that is no white space, 0 if none.
LastMark(s) ==
  IF \E k \in 1..Len(s) : s[k] \notin WhiteSpace
  THEN CHOOSE k \in 1..Len(s) :
         s[k] \notin WhiteSpace /\ \A j \in (k + 1)..Len(s) : s[j] \in WhiteSpace
  ELSE 0

\* The text is white space only (the empty text included).
Blank(s) == \A k \in 1..Len(s) : s[k] \in WhiteSpace

\* Characters from..to of s are digits of the table, and there is at least one.
DigitsAt(s, from, to, digits) ==
  from <= to /\ \A k \in from..to : s[k] \in DOMAIN digits

\* The text is an integer literal between optional white space: decimal
\* digits after an optional sign, or 0x, 0o, 0b and digits of that radix.
IntegerText(s) ==
  LET a == FirstMark(s)
      b == LastMark(s)
  IN \/ DigitsAt(s, a, b, DecDigits)
     \/ a < b /\ s[a] \in {"-", "+"} /\ DigitsAt(s, a + 1, b, DecDigits)
     \/ a < b /\ s[a] = "0" /\ s[a + 1] \in {"x", "X"} /\ DigitsAt(s, a + 2, b, HexDigits)
     \/ a < b /\ s[a] = "0" /\ s[a + 1] \in {"o", "O"} /\ DigitsAt(s, a + 2, b, OctDigits)
     \/ a < b /\ s[a] = "0" /\ s[a + 1] \in {"b", "B"} /\ DigitsAt(s, a + 2, b, BinDigits)

\* The text is blank or an integer literal whose digits are all zeros.
ZeroText(s) ==
  \/ Blank(s)
  \/ /\ IntegerText(s)
     /\ \A k \in FirstMark(s)..LastMark(s) :
          \/ s[k] = "0"
          \/ k = FirstMark(s) /\ s[k] \in {"-", "+"}
          \/ k = FirstMark(s) + 1 /\ s[k] \in {"x", "X", "o", "O", "b", "B"}

\* The text is a tick count: decimal digits and nothing else.
TickCount(s) == DigitsAt(s, 1, Len(s), DecDigits)

\* The tick count fits 64 bits.
Fits64(s) == Len(s) < Len(TicksMax64) \/ s = TicksMax64

\* Days since 1970-01-01 and milliseconds of the day of a tick count, in the
\* zone: ticks / 10000 - 11644473600000 ms, moved by the zone's offset.
LocalInstant(s, zone) ==
  LocalTime(UnixTime(FALSE, DivideBy10000([k \in 1..Len(s) |-> DecDigits[s[k]]])), zone)

\* The tick count falls on 1980-02-01 in the zone: day 3683 since 1970-01-01.
OnPlaceholderDate(s, zone) == LocalInstant(s, zone)[1] = 3683

\* C11 as stated: formatFileTime returns a text for every input; absent, ""
\* and "0" give "No date"; a tick count on the date 1980-02-01 gives
\* "No date"; text that is not a number gives "Invalid date"; every other
\* tick count gives a date that is neither "No date" nor "Invalid date".
C11_NotANumberIsInvalid ==
  TimeFormatted =>
    /\ fmt.input \in {Undefined, Str(<<>>), Str(<<"0">>)} => fmt.output = "No date"
    /\ fmt.input.t = "string" =>
         /\ (TickCount(fmt.input.s) /\ OnPlaceholderDate(fmt.input.s, tz)) =>
              fmt.output = "No date"
         /\ (fmt.input.s # <<>> /\ ~IntegerText(fmt.input.s)) =>
              fmt.output = "Invalid date"
         /\ (TickCount(fmt.input.s) /\ fmt.input.s # <<"0">> /\ Fits64(fmt.input.s)
               /\ ~OnPlaceholderDate(fmt.input.s, tz)) =>
              fmt.output \notin {"No date", "Invalid date"}

\* C11 as amended: formatFileTime returns a text for every absent or text
\* input; absent and any text that is blank or spells zero ("", "0", " ",
\* "00", "0x0", "-0") give "No date"; a 64-bit tick count that falls on
\* 1980-02-01 in the local time zone gives "No date"; text that is neither
\* blank nor an integer literal gives "Invalid date"; every other 64-bit
\* tick count gives the local date and time, which is none of "No date",
\* "Invalid date", "Invalid Date"; a count beyond the range of Date gives
\* "Invalid Date".
C11_ZeroTextAndLocalPlaceholder ==
  TimeFormatted =>
    /\ fmt.input \in {Undefined, Null} => fmt.output = "No date"
    /\ fmt.input.t = "string" =>
         /\ ZeroText(fmt.input.s) => fmt.output = "No date"
         /\ (~Blank(fmt.input.s) /\ ~IntegerText(fmt.input.s)) =>
              fmt.output = "Invalid date"
         /\ (TickCount(fmt.input.s) /\ ~ZeroText(fmt.input.s) /\ Fits64(fmt.input.s)) =>
              IF OnPlaceholderDate(fmt.input.s, tz)
              THEN fmt.output = "No date"
              ELSE /\ fmt.output \notin {"No date", "Invalid date", "Invalid Date"}
                   /\ fmt.output = toLocaleString(LocalInstant(fmt.input.s, tz))
         /\ fmt.input.s = TicksBeyondDate => fmt.output = "Invalid Date"
         /\ (fmt.input.s = Ticks2023 /\ tz = 0) => fmt.output = "2023-12-26 02:40:00"
         /\ (fmt.input.s = Ticks1980 /\ tz < 0) => fmt.output = "1980-01-31 16:00:00"

C11_Witness ==
  /\ TimeFormatted
  /\ fmt.input = Str(TicksJan31At1600)
  /\ tz = 540
  /\ fmt.output = "No date"

\* The entries of a body with a numeric total and a list of k >= 1 entries,
\* each an object; the empty sequence for any other body.
EntriesOf(data) ==
  LET r == Get(data, "results")
  IN IF /\ Get(data, "totalResults").t = "number"
        /\ r.t = "array"
        /\ \A k \in 1..Len(r.a) : r.a[k].t = "object"
     THEN r.a
     ELSE <<>>

RECURSIVE BlocksUpTo(_, _, _)
\* The blocks of entries 1..k in that order, a blank line between two blocks.
BlocksUpTo(entries, k, zone) ==
  IF k = 0 THEN ""
  ELSE BlocksUpTo(entries, k - 1, zone) \o (IF k > 1 THEN "\n" ELSE "")
         \o FormatEntry(entries[k], zone)

\* C12: whatever sort and ascending the request carried, when the GET
\* resolves with k >= 1 entries the invocation returns the text
\* "Found N results:", a blank line, and exactly k blocks, the i-th block
\* rendering the i-th entry of the engine's list: nothing is dropped,
\* duplicated or reordered.
C12_BlocksInEngineOrder ==
  [][\A i \in Slots :
       ( /\ InFlight(i)
         /\ calls'[i].pc = "done"
         /\ calls'[i].reply.ok
         /\ EntriesOf(calls'[i].reply.data) # <<>> ) =>
       \A sort \in SortNames, ascending \in {0, 1} :
         (calls[i].request.sort = Str(sort) /\ calls[i].request.ascending = Num(ascending)) =>
           LET data == calls'[i].reply.data
               entries == EntriesOf(data)
           IN calls'[i].outcome =
                TextContent("Found " \o ToString(Get(data, "totalResults").n)
                              \o " results:\n\n" \o BlocksUpTo(entries, Len(entries), tz))
    ]_vars

C12_Witness ==
  \E i \in Slots :
    /\ Resolved(i)
    /\ tz = 0
    /\ calls[i].reply.data = Data(Num(2), Arr(<<FileB, FileA>>))
    /\ calls[i].outcome =
         TextContent("Found 2 results:\n\n"
                       \o "Name: b\nPath: C:\\\nSize: 0.00 bytes\nModified: No date\n\n"
                       \o "Name: a\nPath: C:\\\nSize: 1.00 KB\nModified: 2023-12-26 02:40:00\n")

\* The text is a positive size: decimal digits only, not all of them zero.
PositiveSize(s) ==
  DigitsAt(s, 1, Len(s), DecDigits) /\ \E k \in 1..Len(s) : s[k] # "0"

\* The digits of the size, without leading zeros.
SizeDigits(s) == DropZeros([k \in 1..Len(s) |-> DecDigits[s[k]]])

\* The decimal digits of 1024, 1024^2, 1024^3, 1024^4 and 1024^5.
Power1024 ==
  << <<1,0,2,4>>,
     <<1,0,4,8,5,7,6>>,
     <<1,0,7,3,7,4,1,8,2,4>>,
     <<1,0,9,9,5,1,1,6,2,7,7,7,6>>,
     <<1,1,2,5,8,9,9,9,0,6,8,4,2,6,2,4>> >>

\* a >= b for two numbers given by their digits without leading zeros.
AtLeast(a, b) ==
  \/ Len(a) > Len(b)
  \/ /\ Len(a) = Len(b)
     /\ \A k \in 1..Len(a) :
          (\A j \in 1..(k - 1) : a[j] = b[j]) => a[k] >= b[k]

\* The unit index the claim states: how many of 1024, 1024^2, 1024^3 and
\* 1024^4 the size reaches.
UnitIndexOf(b) == Cardinality({k \in 1..4 : AtLeast(b, Power1024[k])})

\* b / 1024^u to the nearest hundredth, for b below 1024^3 and u at most 2.
Hundredths(b, u) ==
  LET divisor == IF u = 0 THEN 1 ELSE IF u = 1 THEN 1024 ELSE 1024 * 1024
  IN 100 * (b \div divisor) + (100 * (b % divisor) + divisor \div 2) \div divisor

\* Sizes of a gigabyte and more with the rendering of the exact quotient.
LargeSizes ==
  { <<<<"1","0","7","3","7","4","1","8","2","4">>, "1.00 GB">>,
    <<<<"2","1","4","7","4","8","3","6","4","8">>, "2.00 GB">>,
    <<<<"1","2","3","4","5","6","7","8","9","0","1","2">>, "114.98 GB">>,
    <<<<"1","0","9","9","5","1","1","6","2","7","7","7","5">>, "1024.00 GB">>,
    <<<<"1","0","9","9","5","1","1","6","2","7","7","7","6">>, "1.00 TB">>,
    <<<<"1","6","4","9","2","6","7","4","4","1","6","6","4">>, "1.50 TB">>,
    <<<<"1","0","0","0","0","0","0","0","0","0","0","0","0","0","0","0">>, "909.49 TB">>,
    <<<<"1","1","2","5","8","9","9","9","0","6","8","4","2","6","2","3">>, "1024.00 TB">>,
    <<<<"1","1","2","5","8","9","9","9","0","6","8","4","2","6","2","4">>, "1024.00 TB">>,
    <<<<"5","6","2","9","4","9","9","5","3","4","2","1","3","1","2","0">>, "5120.00 TB">> }

\* C13: for a size that parses to an integer b >= 1, formatFileSize picks the
\* unit index u = how often b can be divided by 1024 while the value is
\* >= 1024, at most 4; the text is b / 1024^u with two decimals and the unit
\* u of bytes, KB, MB, GB, TB; b / 1024^u is below 1024 when b < 1024^5, and
\* from 1024^5 on the unit stays TB; 1024 renders "1.00 KB" and 1048576
\* "1.00 MB".  (The two decimals round: 1048575, which is 1023.999 KB,
\* renders "1024.00 KB".)
C13_UnitAndValue ==
  (SizeFormatted /\ fmt.input.t = "string" /\ PositiveSize(fmt.input.s)) =>
    LET b == SizeDigits(fmt.input.s)
        u == UnitIndexOf(b)
    IN /\ u <= 2 =>
            LET h == Hundredths(DigitsToNat(b), u)
            IN /\ DigitsToNat(b) < 1024 * 1024 * 1024
               /\ fmt.output = ToString(h \div 100) \o "." \o TwoDigits(h % 100)
                                 \o " " \o units[u + 1]
       /\ u >= 3 => \E size \in LargeSizes : size[1] = fmt.input.s
       /\ \A size \in LargeSizes : size[1] = fmt.input.s => fmt.output = size[2]
       /\ ~AtLeast(b, Power1024[5]) => ~AtLeast(b, Power1024[u + 1])
       /\ AtLeast(b, Power1024[5]) => u = 4
       /\ fmt.input.s = <<"1","0","2","4">> => fmt.output = "1.00 KB"
       /\ fmt.input.s = <<"1","0","4","8","5","7","6">> => fmt.output = "1.00 MB"
       /\ fmt.input.s = <<"1","0","4","8","5","7","5">> => fmt.output = "1024.00 KB"

C13_Witness ==
  /\ SizeFormatted
  /\ fmt.input = Str(<<"5","6","2","9","4","9","9","5","3","4","2","1","3","1","2","0">>)
  /\ fmt.output = "5120.00 TB"

\* The search parameter and the count an invocation running alone sends for
\* the two valid calls of ConcurrentCalls.
OwnSearch(args) ==
  IF args = QueryOnly
  THEN IF variant = "js" THEN <<"C", ":", "\\", "a">> ELSE <<"a">>
  ELSE <<"D", ":", "\\", "x", "\\", "a">>

OwnCount(args) ==
  IF args = QueryOnly THEN (IF variant = "js" THEN 32 ELSE 100) ELSE 5

\* What an invocation running alone returns for each answer of
\* ConcurrentBodies, and throws for each failure of ConcurrentCauses.
AloneOutcome(reply) ==
  IF reply.ok
  THEN CASE reply.data = TwoEntries ->
              TextContent("Found 2 results:\n\n"
                            \o "Name: b\nPath: C:\\\nSize: 0.00 bytes\nModified: No date\n\n"
                            \o "Name: c\nPath: C:\\\nSize: N/A\nModified: No date\n")
         [] reply.data = Data(Num(3), Undefined) ->
              TextContent(IF variant = "js" THEN "Found 0 results:\n\nNo results found"
                          ELSE "Found 3 results:\n\nNo results found")
         [] OTHER -> InvalidResponseThrown
  ELSE IF reply.error.cause = "refused" THEN Thrown(Error(UnavailableMessage))
  ELSE Thrown(Error("Everything Search API error: socket hang up"))

\* C14: invocations in flight at once do not touch one another.  A step of
\* one invocation leaves every other invocation as it was; an invocation
\* that leaves its delay issues its own GET, the first and only one, built
\* from its own arguments, also when another invocation is waiting on an
\* identical request; an invocation that settles after its GET has the
\* outcome it has when running alone with that answer; and two invocations
\* that got the same answer return the same text.
C14_IndependentInvocations ==
  [][\A i \in DOMAIN calls :
       /\ calls'[i] # calls[i] =>
            \A j \in DOMAIN calls \ {i} : calls'[j] = calls[j]
       /\ (calls[i].pc = "delay" /\ calls'[i].pc = "http") =>
            /\ calls'[i].gets = 1
            /\ calls'[i].args = calls[i].args
            /\ calls'[i].request =
                 BuildRequest(variant, SchemaParse(SearchSchema(variant), calls[i].args).data)
            /\ calls'[i].request.search = Str(OwnSearch(calls[i].args))
            /\ calls'[i].request.count = Num(OwnCount(calls[i].args))
       /\ (calls[i].pc = "http" /\ calls'[i].pc = "done") =>
            /\ calls'[i].gets = 1
            /\ calls'[i].outcome = AloneOutcome(calls'[i].reply)
       /\ \A j \in DOMAIN calls :
            ( /\ calls'[i].pc = "done" /\ calls'[j].pc = "done"
              /\ calls'[i].reply # None /\ calls'[i].reply = calls'[j].reply ) =>
            calls'[i].outcome = calls'[j].outcome
    ]_vars

\* Two invocations wait on identical requests, each on its own GET.
C14_Witness ==
  /\ calls[1].pc = "http" /\ calls[2].pc = "http"
  /\ calls[1].args = QueryOnly /\ calls[2].args = QueryOnly
  /\ calls[1].request = calls[2].request
  /\ calls[1].gets = 1 /\ calls[2].gets = 1

====
